---- MODULE Spec2Model ----
(***************************************************************************)
(* careerspace-parser: the configuration validator, the scroll-driven      *)
(* crawler, the per-vacancy parse loop of main() and the field extraction  *)
(* functions of HTMLParser, modelled from src/scrapper_careerspace.py.     *)
(*                                                                         *)
(* A Python str is modelled as a sequence of characters, so that count,    *)
(* slicing, substring search, split, strip, lower and the digit filter are *)
(* computed rather than assumed.  An ASCII character is the one-character  *)
(* string; any other character is named by its code point, "u043e" being   *)
(* CYRILLIC SMALL LETTER O.                                                *)
(***************************************************************************)
EXTENDS Integers, Sequences, FiniteSets, TLC

VARIABLES
    \* Crawler.scroll_site / Crawler.find_articles
    pc,            \* position in scroll_site
    num_articles,  \* config.get_num_articles()
    urls,          \* Crawler.urls
    last_height,   \* local last_height
    new_height,    \* local new_height
    page_links,    \* what the last page_source held: how many distinct
                   \* qualifying links, and whether one of them was repeated
    scrolls,       \* number of window.scrollTo commands issued
    heights,       \* every document.body.scrollHeight measured, in order
    quits          \* number of driver.quit() calls

VARIABLES
    \* Config.__init__
    config_file,   \* what json.load gives for the file at path_to_config
    config_pc,     \* position in Config.__init__
    validated,     \* the content _validate_config_content read
    config_error,  \* the exception Config.__init__ raised, "no" for none
    config         \* the fields of the constructed Config

VARIABLES
    \* the parse loop of main()
    main_pc,       \* position in main: "loop", "parsed" or "crashed"
    idx,           \* the index enumerate gives the next URL
    requested,     \* the URLs make_request was called with, in order
    responses,     \* what each of those requests met
    ws,            \* the rows of the worksheet
    error          \* the exception that ended main, "no" for none

VARIABLES
    \* one call of an HTMLParser extraction method
    argument,      \* the value the method is called with
    called,        \* whether the call has been made
    returned       \* what the call returned or raised

crawl_vars == <<pc, num_articles, urls, last_height, new_height, page_links,
                scrolls, heights, quits>>
config_vars == <<config_file, config_pc, validated, config_error, config>>
main_vars == <<main_pc, idx, requested, responses, ws, error>>
call_vars == <<argument, called, returned>>

vars == <<crawl_vars, config_vars, main_vars, call_vars>>

\* what the steps of one component leave alone
not_crawl_vars == <<config_vars, main_vars, call_vars>>
not_config_vars == <<crawl_vars, main_vars, call_vars>>
not_main_vars == <<crawl_vars, config_vars, call_vars>>
not_call_vars == <<crawl_vars, config_vars, main_vars>>

\* ------------------------------------------------------------------ bounds
MaxCap == 2
MaxLinks == 3
MaxHeight == 1
MaxScrolls == 2
MaxWords == 3
MaxBadges == 3
MaxPieces == 3

\* ------------------------------------------------------- Python str helpers
\* Python's None: no str value is a sequence holding this element
None == <<"None">>

\* s[:n]
Take(s, n) == SubSeq(s, 1, IF n < Len(s) THEN n ELSE Len(s))

\* s.count(c) for a one-character c
Count(s, c) == Cardinality({i \in 1..Len(s) : s[i] = c})

\* x in list
InList(x, l) == \E i \in 1..Len(l) : l[i] = x

NoDuplicates(l) == \A i, j \in 1..Len(l) : l[i] = l[j] => i = j

IsPrefix(s, t) == Len(s) <= Len(t) /\ SubSeq(t, 1, Len(s)) = s

SetMin(S) == CHOOSE x \in S : \A y \in S : x <= y
SetMax(S) == CHOOSE x \in S : \A y \in S : x >= y

\* every concatenation of at most n elements of pieces
RECURSIVE Concatenations(_, _)
Concatenations(pieces, n) ==
    IF n = 0 THEN {<<>>}
    ELSE LET shorter == Concatenations(pieces, n - 1)
         IN shorter \cup {p \o t : p \in pieces, t \in shorter}

\* every list of at most n elements of S
Lists(S, n) == UNION {[1..k -> S] : k \in 0..n}

Whitespace == {" ", "\n", "\t"}

\* str.strip()
Strip(s) ==
    LET kept == {i \in 1..Len(s) : s[i] \notin Whitespace}
    IN IF kept = {} THEN <<>> ELSE SubSeq(s, SetMin(kept), SetMax(kept))

UpperCase == <<"A", "B", "C", "D", "E", "F", "G", "H", "I", "J", "K", "L", "M", "N", "O", "P",
        "Q", "R", "S", "T", "U", "V", "W", "X", "Y", "Z", "u0410", "u0411", "u0412", "u0413",
                "u0414", "u0415", "u0401", "u0416", "u0417", "u0418", "u0419", "u041a",
                        "u041b", "u041c", "u041d", "u041e", "u041f", "u0420", "u0421",
                                "u0422", "u0423", "u0424", "u0425", "u0426", "u0427", "u0428",
                                        "u0429", "u042a", "u042b", "u042c", "u042d", "u042e",
                                                "u042f">>
LowerCase == <<"a", "b", "c", "d", "e", "f", "g", "h", "i", "j", "k", "l", "m", "n", "o", "p",
        "q", "r", "s", "t", "u", "v", "w", "x", "y", "z", "u0430", "u0431", "u0432", "u0433",
                "u0434", "u0435", "u0451", "u0436", "u0437", "u0438", "u0439", "u043a",
                        "u043b", "u043c", "u043d", "u043e", "u043f", "u0440", "u0441",
                                "u0442", "u0443", "u0444", "u0445", "u0446", "u0447", "u0448",
                                        "u0449", "u044a", "u044b", "u044c", "u044d", "u044e",
                                                "u044f">>

LowerChar(c) ==
    IF \E i \in 1..Len(UpperCase) : UpperCase[i] = c
    THEN LowerCase[CHOOSE i \in 1..Len(UpperCase) : UpperCase[i] = c]
    ELSE c

\* str.lower()
Lower(s) == [i \in 1..Len(s) |-> LowerChar(s[i])]

\* the positions at which sub occurs in s
Occurrences(s, sub) ==
    {i \in 1..(Len(s) - Len(sub) + 1) : SubSeq(s, i, i + Len(sub) - 1) = sub}

\* sub in s
Contains(s, sub) == Len(sub) = 0 \/ Occurrences(s, sub) # {}

\* s.split(sep), sep not empty
RECURSIVE Split(_, _)
Split(s, sep) ==
    LET occ == Occurrences(s, sep)
    IN IF occ = {} THEN <<s>>
       ELSE LET i == SetMin(occ)
            IN <<SubSeq(s, 1, i - 1)>> \o Split(SubSeq(s, i + Len(sep), Len(s)), sep)

\* sep.join(parts)
RECURSIVE Join(_, _)
Join(parts, sep) ==
    IF Len(parts) = 0 THEN <<>>
    ELSE IF Len(parts) = 1 THEN parts[1]
    ELSE parts[1] \o sep \o Join(Tail(parts), sep)

DigitChars == <<"0", "1", "2", "3", "4", "5", "6", "7", "8", "9">>

IsDigit(c) == \E i \in 1..Len(DigitChars) : DigitChars[i] = c

DigitValue(c) == (CHOOSE i \in 1..Len(DigitChars) : DigitChars[i] = c) - 1

\* re.sub(r'\D', '', s)
DigitsOf(s) == SelectSeq(s, IsDigit)

\* the value int() gives a non-empty string of digits
RECURSIVE DecimalValue(_)
DecimalValue(ds) ==
    IF Len(ds) = 0 THEN 0
    ELSE 10 * DecimalValue(SubSeq(ds, 1, Len(ds) - 1)) + DigitValue(ds[Len(ds)])

\* an int-or-None value
Some(n) == [some |-> TRUE, val |-> n]
NoInt == [some |-> FALSE, val |-> 0]

\* list.remove(x): drops the first occurrence of x, which is in l
Remove(l, x) ==
    LET i == SetMin({k \in 1..Len(l) : l[k] = x})
    IN SubSeq(l, 1, i - 1) \o SubSeq(l, i + 1, Len(l))

\* ------------------------------------------------------------- the crawler
Origin == <<"h", "t", "t", "p", "s", ":", "/", "/", "c", "a", "r", "e", "e", "r", "s", "p",
        "a", "c", "e", ".", "a", "p", "p">>

\* href attributes an <a class="job-card__i"> may carry (None: no href)
Hrefs == { <<"/", "j", "o", "b", "/", "a">>, <<"/", "j", "o", "b", "/", "b">>, <<"/", "j",
        "o", "b", "/", "c">>,
           <<"/", "j", "o", "b", "/", "a", "/", "x">>, <<"/", "j", "o", "b", "s", "/",
                   "a">>, <<>>, None }

\* page_source: the job-card anchors of one snapshot, in document order
Snapshots == UNION {[1..n -> Hrefs] : n \in 0..MaxLinks}

Heights == 0..MaxHeight

\* Crawler._extract_url
_extract_url(href) ==
    IF href # None /\ href # <<>> /\ Count(href, "/") = 2
       /\ Take(href, 5) = <<"/", "j", "o", "b", "/">>
    THEN Origin \o href
    ELSE <<>>

find_article_step_no_cap(seen, link, cap) ==
    LET url == _extract_url(link)
    IN IF url # <<>> /\ ~InList(url, seen) THEN Append(seen, url) ELSE seen

\* the body of find_articles' for loop, for one link
find_article_step(seen, link, cap) ==
    IF Len(seen) < cap
    THEN LET url == _extract_url(link)
         IN IF url # <<>> /\ ~InList(url, seen) THEN Append(seen, url) ELSE seen
    ELSE seen

RECURSIVE find_articles_from(_, _, _, _)
find_articles_from(seen, links, i, cap) ==
    IF i > Len(links) THEN seen
    ELSE find_articles_from(find_article_step(seen, links[i], cap), links, i + 1, cap)

\* Crawler.find_articles
find_articles(seen, links, cap) == find_articles_from(seen, links, 1, cap)

\* the URLs _extract_url accepts among the links of one snapshot
qualifying_urls(links) == {_extract_url(links[i]) : i \in 1..Len(links)} \ {<<>>}

has_repeated_link(links) ==
    \E i, j \in 1..Len(links) :
        i # j /\ links[i] = links[j] /\ _extract_url(links[i]) # <<>>

loop_continues_off_by_one(seen, cap) == Len(seen) <= cap

\* the while condition of scroll_site
loop_continues(seen, cap) == Len(seen) < cap

height_stagnated_or_shrunk(new, last) == new <= last

\* the stagnation test of scroll_site
height_stagnated(new, last) == new = last

CrawlInit ==
    /\ pc = "start"
    /\ num_articles \in 1..MaxCap
    /\ urls = <<>>
    /\ last_height = None
    /\ new_height = None
    /\ page_links = None
    /\ scrolls = 0
    /\ heights = <<>>
    /\ quits = 0

\* webdriver.Chrome(...), driver.get(seed), the first scrollHeight and the
\* first evaluation of the while condition
Open ==
    /\ pc = "start"
    /\ \E h \in Heights :
         /\ last_height' = h
         /\ heights' = <<h>>
    /\ pc' = IF loop_continues(urls, num_articles) THEN "scroll" ELSE "quit"
    /\ UNCHANGED <<num_articles, urls, new_height, page_links, scrolls, quits>>
    /\ UNCHANGED not_crawl_vars

\* webdriver.Chrome(...) or driver.get(...) raises: nothing catches it
OpenFails ==
    /\ pc = "start"
    /\ pc' = "fatal"
    /\ UNCHANGED <<num_articles, urls, last_height, new_height, page_links,
                   scrolls, heights, quits>>
    /\ UNCHANGED not_crawl_vars

\* scrollTo, page_source, find_articles
Scroll ==
    /\ pc = "scroll"
    /\ scrolls < MaxScrolls
    /\ \E html \in Snapshots :
         /\ page_links' = [qualifying |-> Cardinality(qualifying_urls(html)),
                            repeated |-> has_repeated_link(html)]
         /\ urls' = find_articles(urls, html, num_articles)
    /\ scrolls' = scrolls + 1
    /\ pc' = "check"
    /\ UNCHANGED <<num_articles, last_height, new_height, heights, quits>>
    /\ UNCHANGED not_crawl_vars

\* sleep, the new scrollHeight, the stagnation test and the while condition
Check ==
    /\ pc = "check"
    /\ \E h \in Heights :
         /\ new_height' = h
         /\ heights' = Append(heights, h)
         /\ IF height_stagnated(h, last_height)
            THEN /\ pc' = "quit"
                 /\ UNCHANGED last_height
            ELSE /\ last_height' = h
                 /\ pc' = IF loop_continues(urls, num_articles)
                          THEN "scroll" ELSE "quit"
    /\ UNCHANGED <<num_articles, urls, page_links, scrolls, quits>>
    /\ UNCHANGED not_crawl_vars

\* driver.quit()
Quit ==
    /\ pc = "quit"
    /\ quits' = quits + 1
    /\ pc' = "closed"
    /\ UNCHANGED <<num_articles, urls, last_height, new_height, page_links,
                   scrolls, heights>>
    /\ UNCHANGED not_crawl_vars

CrawlNext == Open \/ OpenFails \/ Scroll \/ Check \/ Quit


\* the first scroll after which the measured height equals the one measured
\* before it (0: no such scroll), hs[1] being the height before any scroll
StagnationIndex(hs) ==
    LET stagnant == {k \in 1..(Len(hs) - 1) : hs[k + 1] = hs[k]}
    IN IF stagnant = {} THEN 0
       ELSE CHOOSE k \in stagnant : \A m \in stagnant : k <= m

crawl_done == pc \in {"quit", "closed"}

\* C1: the accumulated URL list never holds more than the target count, never
\* holds a URL twice, and only grows at its end: every value is a prefix of
\* the next.
C1_UrlSetInvariant ==
    /\ [](Len(urls) <= num_articles /\ NoDuplicates(urls))
    /\ [][IsPrefix(urls, urls')]_vars

\* a snapshot with more distinct qualifying links than the cap, one of them
\* repeated, has been processed and the list is full
C1_Witness ==
    /\ pc = "check"
    /\ page_links.qualifying > num_articles
    /\ page_links.repeated
    /\ Len(urls) = num_articles

\* C2 (as amended): the height before the first scroll is the one measured
\* after loading the seed page; when the loop is left without cap-many URLs,
\* the number of scrolls is exactly the first scroll after which the height
\* did not change, and while the loop runs no such scroll has happened.
C2_StopsAtStagnation ==
    /\ (crawl_done /\ Len(urls) < num_articles)
          => (scrolls >= 1 /\ scrolls = StagnationIndex(heights))
    /\ pc \in {"scroll", "check"} => StagnationIndex(heights) = 0

C2_Witness ==
    /\ pc = "closed"
    /\ Len(urls) < num_articles
    /\ scrolls = 2
    /\ heights[1] # 0

\* C2 as stated: the last-observed height starts at 0, so N is the first
\* scroll whose height equals the previous one with 0 standing before the
\* first snapshot.
C2_FromZeroHeight ==
    (crawl_done /\ Len(urls) < num_articles)
        => scrolls = StagnationIndex(<<0>> \o Tail(heights))

\* C3: a Check step leaves the loop exactly when the list is full or the
\* height did not change, and otherwise stores the new height and scrolls
\* again; the loop is left only by a Check step; the session is then closed
\* once, and nothing scrolls or discovers links afterwards.
C3_CheckDecision ==
    /\ [][pc = "check" =>
            /\ (pc' = "quit") <=>
                 (Len(urls) >= num_articles \/ new_height' = last_height)
            /\ pc' # "quit" => (pc' = "scroll" /\ last_height' = new_height')]_vars
    /\ [][(pc' = "quit" /\ pc # "quit") => pc = "check"]_vars
    /\ [][pc = "quit" => (pc' = "closed" /\ quits' = 1)]_vars
    /\ [](quits = (IF pc = "closed" THEN 1 ELSE 0))
    /\ [][quits >= 1 => (scrolls' = scrolls /\ urls' = urls /\ quits' = quits)]_vars

\* the loop was left because the list is full although the page still grew
C3_Witness ==
    /\ pc = "closed"
    /\ quits = 1
    /\ Len(urls) >= num_articles
    /\ heights[Len(heights)] # heights[Len(heights) - 1]
\* ------------------------------------------------------------------ Config
\* a value json.load can give: its Python type t, and of the other fields
\* the one that type uses (n: int and bool; whole.frac: float, frac in
\* tenths; s: str and a dict item's key; items: list, dict, a dict item's
\* value)
JsonValue(t, n, frac, s, items) ==
    [t |-> t, n |-> n, frac |-> frac, s |-> s, items |-> items]
JStr(s) == JsonValue("str", 0, 0, s, <<>>)
JInt(n) == JsonValue("int", n, 0, <<>>, <<>>)
JBool(b) == JsonValue("bool", IF b THEN 1 ELSE 0, 0, <<>>, <<>>)
JFloat(whole, tenths) == JsonValue("float", whole, tenths, <<>>, <<>>)
JNull == JsonValue("NoneType", 0, 0, <<>>, <<>>)
JList(items) == JsonValue("list", 0, 0, <<>>, items)
JItem(key, value) == JsonValue("item", 0, 0, key, <<value>>)
JDict(items) == JsonValue("dict", 0, 0, <<>>, items)

\* isinstance(v, int): bool is a subclass of int
IsInstanceInt(v) == v.t \in {"int", "bool"}

\* v in range(lo, hi + 1): an int, a bool or a float equal to a member
InRange(v, lo, hi) ==
    /\ v.t \in {"int", "bool", "float"}
    /\ v.frac = 0
    /\ lo <= v.n /\ v.n <= hi

NUM_ARTICLES_UPPER_LIMIT == None
TIMEOUT_LOWER_LIMIT == 0
TIMEOUT_UPPER_LIMIT == 60

\* re.match('^https?://[w{3}]?.*/', s): the scheme, then a "/" with no
\* newline before it (the optional class character is one "." matches too)
MatchesUrlPattern(s) ==
    \E scheme \in {<<"h", "t", "t", "p", ":", "/", "/">>, <<"h", "t", "t", "p", "s", ":", "/",
            "/">>} :
        /\ IsPrefix(scheme, s)
        /\ \E j \in (Len(scheme) + 1)..Len(s) :
              /\ s[j] = "/"
              /\ \A k \in (Len(scheme) + 1)..(j - 1) : s[k] # "\n"

\* all(re.match(pattern, url) and isinstance(url, str) for url in seed_urls),
\* from element i on: re.match raises TypeError on a url that is no str
RECURSIVE seed_urls_check(_, _)
seed_urls_check(seed_urls, i) ==
    IF i > Len(seed_urls) THEN "no"
    ELSE IF seed_urls[i].t # "str" THEN "TypeError"
    ELSE IF ~MatchesUrlPattern(seed_urls[i].s) THEN "IncorrectSeedURLError"
    ELSE seed_urls_check(seed_urls, i + 1)

\* Config._validate_config_content: the exception it raises, "no" for none
_validate_config_content(dto) ==
    IF dto.seed_urls.t # "list" THEN "IncorrectSeedURLError"
    ELSE IF seed_urls_check(dto.seed_urls.items, 1) # "no"
    THEN seed_urls_check(dto.seed_urls.items, 1)
    ELSE IF \/ ~IsInstanceInt(dto.total_articles)
            \/ dto.total_articles.t = "bool"
            \/ dto.total_articles.n < 1
    THEN "IncorrectNumberOfArticlesError"
    ELSE IF NUM_ARTICLES_UPPER_LIMIT # None
            /\ dto.total_articles.n > NUM_ARTICLES_UPPER_LIMIT
    THEN "NumberOfArticlesOutOfRangeError"
    ELSE IF dto.headers.t # "dict" THEN "IncorrectHeadersError"
    ELSE IF dto.encoding.t # "str" THEN "IncorrectEncodingError"
    ELSE IF ~InRange(dto.timeout, TIMEOUT_LOWER_LIMIT, TIMEOUT_UPPER_LIMIT)
    THEN "IncorrectTimeoutError"
    ELSE IF dto.should_verify_certificate.t # "bool" \/ dto.headless_mode.t # "bool"
    THEN "IncorrectVerifyError"
    ELSE "no"

\* the values a configuration file may give each key
SeedUrlsValues ==
    { JList(<<JStr(<<"h", "t", "t", "p", "s", ":", "/", "/", "a",
            "/">>)>>), JList(<<>>), JList(<<JInt(1)>>),
      JList(<<JStr(<<"f", "t", "p", ":", "/", "/", "x">>)>>), JList(<<JStr(<<"f", "t", "p",
              ":", "/", "/", "x">>), JInt(1)>>),
      JList(<<JStr(<<"h", "t", "t", "p", "s", ":", "/", "/", "a",
              "/">>), JInt(1)>>), JStr(<<"h", "t", "t", "p", "s", ":", "/", "/", "a", "/">>) }
TotalArticlesValues == { JInt(2), JInt(0), JBool(TRUE), JFloat(1, 5), JStr(<<"2">>) }
HeadersValues ==
    { JDict(<<JItem(<<"U", "s", "e", "r", "-", "A", "g", "e", "n", "t">>, JStr(<<"x">>))>>),
      JDict(<<JItem(<<"U", "s", "e", "r", "-", "A", "g", "e", "n", "t">>, JInt(1))>>), JList(<<>>) }
EncodingValues == { JStr(<<"u", "t", "f", "-", "8">>), JInt(8) }
TimeoutValues ==
    { JInt(0), JInt(60), JInt(61), JInt(-1), JBool(TRUE), JFloat(5, 0), JFloat(5, 5),
      JStr(<<"5">>), JNull }
VerifyValues == { JBool(TRUE), JInt(1) }
HeadlessValues == { JBool(FALSE), JStr(<<"n", "o">>) }

ConfigFiles ==
    [seed_urls : SeedUrlsValues, total_articles : TotalArticlesValues,
     headers : HeadersValues, encoding : EncodingValues,
     timeout : TimeoutValues, should_verify_certificate : VerifyValues,
     headless_mode : HeadlessValues]

ConfigInit ==
    /\ config_file \in ConfigFiles
    /\ config_pc = "validate"
    /\ validated = None
    /\ config_error = "no"
    /\ config = None

\* self._validate_config_content(): reads the file and checks it
Validate ==
    /\ config_pc = "validate"
    /\ validated' = config_file
    /\ config_error' = _validate_config_content(config_file)
    /\ config_pc' = IF config_error' = "no" THEN "extract" ELSE "raised"
    /\ UNCHANGED <<config_file, config>>
    /\ UNCHANGED not_config_vars

\* the file read again by _extract_config_content() and its fields stored
Construct ==
    /\ config_pc = "extract"
    /\ config' = config_file
    /\ config_pc' = "constructed"
    /\ UNCHANGED <<config_file, validated, config_error>>
    /\ UNCHANGED not_config_vars

\* between the two reads someone else writes one key of the file
FileRewritten ==
    /\ config_pc = "extract"
    /\ config_file = validated
    /\ \E other \in ConfigFiles :
         /\ Cardinality({k \in DOMAIN other : other[k] # config_file[k]}) = 1
         /\ config_file' = other
    /\ UNCHANGED <<config_pc, validated, config_error, config>>
    /\ UNCHANGED not_config_vars

ConfigNext == Validate \/ Construct \/ FileRewritten

\* the rules of a valid configuration, one by one
SeedUrlsRule(v) ==
    /\ v.t = "list"
    /\ \A i \in 1..Len(v.items) :
          v.items[i].t = "str" /\ MatchesUrlPattern(v.items[i].s)
ArticleCountRule(v) == v.t = "int" /\ v.n >= 1
ArticleLimitRule(v) ==
    NUM_ARTICLES_UPPER_LIMIT = None \/ v.n <= NUM_ARTICLES_UPPER_LIMIT
HeadersRule(v) ==
    /\ v.t = "dict"
    /\ \A i \in 1..Len(v.items) : v.items[i].items[1].t = "str"
EncodingRule(v) == v.t = "str"
\* an integer: a JSON number without a fraction part that Python reads as
\* an int (a bool is let through here, as isinstance(v, int) lets it)
TimeoutRule(v) ==
    /\ v.t \in {"int", "bool"}
    /\ TIMEOUT_LOWER_LIMIT <= v.n /\ v.n <= TIMEOUT_UPPER_LIMIT
FlagsRule(verify, headless) == verify.t = "bool" /\ headless.t = "bool"

\* the error kind of the earliest rule a raw configuration violates
ClaimedError(raw) ==
    IF ~SeedUrlsRule(raw.seed_urls) THEN "IncorrectSeedURLError"
    ELSE IF ~ArticleCountRule(raw.total_articles)
    THEN "IncorrectNumberOfArticlesError"
    ELSE IF ~ArticleLimitRule(raw.total_articles)
    THEN "NumberOfArticlesOutOfRangeError"
    ELSE IF ~HeadersRule(raw.headers) THEN "IncorrectHeadersError"
    ELSE IF ~EncodingRule(raw.encoding) THEN "IncorrectEncodingError"
    ELSE IF ~TimeoutRule(raw.timeout) THEN "IncorrectTimeoutError"
    ELSE IF ~FlagsRule(raw.should_verify_certificate, raw.headless_mode)
    THEN "IncorrectVerifyError"
    ELSE "no"

\* C5: a raw configuration that violates a rule is refused with the error
\* kind of the earliest rule it violates, in the order seed URLs, article
\* count, upper limit, headers, encoding, timeout, flags, and with no other
\* failure.
C5_FirstFailureWins ==
    (config_pc # "validate" /\ ClaimedError(validated) # "no")
        => config_error = ClaimedError(validated)

\* C6: a constructed Config holds a non-empty list of well-formed URLs and
\* fields that satisfy every rule at once.
C6_ConstructedIsValid ==
    config_pc = "constructed"
        => /\ ClaimedError(config) = "no"
           /\ Len(config.seed_urls.items) > 0

\* ---------------------------------------------------- HTMLParser's methods
LevelOrder == <<<<"J", "u", "n", "i", "o", "r">>, <<"M", "i", "d", "d", "l", "e">>, <<"S",
        "e", "n", "i", "o", "r">>>>

\* level_names of identify_level
level_names(level) ==
    CASE level = <<"J", "u", "n", "i", "o", "r">> -> {<<"j", "u", "n", "i", "o",
            "r">>, <<"u043c", "u043b", "u0430", "u0434", "u0448", "u0438",
                    "u0439">>, <<"u0441", "u0442", "u0430", "u0436", "u0435",
                            "u0440">>, <<"u0441", "u0442", "u0430", "u0436", "u0451", "u0440">>}
      [] level = <<"M", "i", "d", "d", "l", "e">> -> {<<"m", "i", "d", "d", "l",
              "e">>, <<"u0441", "u0440", "u0435", "u0434", "u043d", "u0438", "u0439">>}
      [] level = <<"S", "e", "n", "i", "o", "r">> -> {<<"s", "e", "n", "i", "o",
              "r">>, <<"u0441", "u0442", "u0430", "u0440", "u0448", "u0438", "u0439">>, <<"l",
                      "e", "a", "d">>, <<"u0432", "u0435", "u0434", "u0443", "u0449", "u0438",
                              "u0439">>}

\* the label identify_level returns when no level matched
NoLevelLabel == <<>>

identify_level_case_sensitive(name) ==
    LET clean_name == Strip(name)
        matched(level) == \E n \in level_names(level) : Contains(clean_name, n)
        levels == SelectSeq(LevelOrder, matched)
    IN IF Len(levels) > 0 THEN Join(levels, <<",", " ">>) ELSE NoLevelLabel

\* HTMLParser.identify_level
identify_level(name) ==
    LET clean_name == Lower(Strip(name))
        matched(level) == \E n \in level_names(level) : Contains(clean_name, n)
        levels == SelectSeq(LevelOrder, matched)
    IN IF Len(levels) > 0 THEN Join(levels, <<",", " ">>) ELSE NoLevelLabel

RemoteToken == <<"u0423", "u0434", "u0430", "u043b", "u0435", "u043d", "u043d", "u043e">>
HybridToken == <<"u0413", "u0438", "u0431", "u0440", "u0438", "u0434">>

\* HTMLParser.extract_location, given the .text of each badge
extract_location(badges) ==
    LET location == [i \in 1..Len(badges) |-> Strip(badges[i])]
        remote == InList(RemoteToken, location)
        location1 == IF remote THEN Remove(location, RemoteToken) ELSE location
        hybrid == InList(HybridToken, location1)
        location2 == IF hybrid THEN Remove(location1, HybridToken) ELSE location1
    IN [city |-> IF Len(location2) > 0 THEN location2[1] ELSE None,
        remote |-> remote,
        hybrid |-> hybrid]

\* int(re.sub(r'\D', '', text)): raises ValueError on an empty digit string
ParseInt(text) ==
    LET ds == DigitsOf(text)
    IN IF Len(ds) = 0 THEN [raised |-> TRUE, val |-> 0]
       ELSE [raised |-> FALSE, val |-> DecimalValue(ds)]

Raised(exc) == [raised |-> exc, bottom |-> NoInt, top |-> NoInt]
Salary(bottom, top) == [raised |-> "no", bottom |-> bottom, top |-> top]

\* HTMLParser.extract_salary
extract_salary(salary) ==
    IF Contains(salary, <<"u043e", "u0442">>)
    THEN LET n == ParseInt(salary)
         IN IF n.raised THEN Raised("ValueError") ELSE Salary(Some(n.val), NoInt)
    ELSE IF Contains(salary, <<"u0434", "u043e">>)
    THEN LET n == ParseInt(salary)
         IN IF n.raised THEN Raised("ValueError") ELSE Salary(NoInt, Some(n.val))
    ELSE LET salary_info == Split(salary, <<" ", "-", " ">>)
         IN IF Len(salary_info) = 1
            THEN LET n == ParseInt(salary_info[1])
                 IN IF n.raised THEN Raised("ValueError")
                    ELSE Salary(Some(n.val), Some(n.val))
            ELSE LET b == ParseInt(salary_info[1])
                     t == ParseInt(salary_info[2])
                 IN IF b.raised \/ t.raised THEN Raised("ValueError")
                    ELSE Salary(Some(b.val), Some(t.val))

\* ------------------------------------------ one call of identify_level
TitleWords == { <<"S", "e", "n", "i", "o", "r", " ">>, <<"j", "u", "n", "i", "o",
        "r">>, <<"/", "M", "I", "D", "D", "L", "E", " ">>, <<"u0412", "u0435", "u0434",
                "u0443", "u0449", "u0438", "u0439", " ">>,
                <<"D", "a", "t", "a", " ">>, <<"m", "i", "s", "l", "e", "a", "d", "i", "n", "g">> }

Titles == Concatenations(TitleWords, MaxWords)

LevelInit == argument \in Titles /\ called = FALSE /\ returned = None

CallIdentifyLevel ==
    /\ ~called
    /\ called' = TRUE
    /\ returned' = identify_level(argument)
    /\ UNCHANGED argument
    /\ UNCHANGED not_call_vars


\* whether the lower-cased title holds one of the level's synonyms
TitleNames(title, level) ==
    \E n \in level_names(level) : Contains(Lower(title), n)

\* the label the classifier is to give a title, none being the value for a
\* title that names no level
ClaimedLabel(title, none) ==
    LET j == TitleNames(title, <<"J", "u", "n", "i", "o", "r">>)
        m == TitleNames(title, <<"M", "i", "d", "d", "l", "e">>)
        s == TitleNames(title, <<"S", "e", "n", "i", "o", "r">>)
    IN CASE j /\ m /\ s -> <<"J", "u", "n", "i", "o", "r", ",", " ", "M", "i", "d", "d", "l",
            "e", ",", " ", "S", "e", "n", "i", "o", "r">>
         [] j /\ m /\ ~s -> <<"J", "u", "n", "i", "o", "r", ",", " ", "M", "i", "d", "d", "l", "e">>
         [] j /\ ~m /\ s -> <<"J", "u", "n", "i", "o", "r", ",", " ", "S", "e", "n", "i", "o", "r">>
         [] ~j /\ m /\ s -> <<"M", "i", "d", "d", "l", "e", ",", " ", "S", "e", "n", "i", "o", "r">>
         [] j /\ ~m /\ ~s -> <<"J", "u", "n", "i", "o", "r">>
         [] ~j /\ m /\ ~s -> <<"M", "i", "d", "d", "l", "e">>
         [] ~j /\ ~m /\ s -> <<"S", "e", "n", "i", "o", "r">>
         [] OTHER -> none

\* C9 (as amended): identify_level returns the comma-joined levels whose
\* synonyms the lower-cased title holds, in the order Junior, Middle, Senior
\* wherever they occur, and the empty string when no level matches.
C9_LevelLabel == called => returned = ClaimedLabel(argument, <<>>)

\* a Senior synonym written before a Junior one, in mixed case
C9_Witness ==
    /\ called
    /\ argument = <<"S", "e", "n", "i", "o", "r", " ", "j", "u", "n", "i", "o", "r">>
    /\ returned = <<"J", "u", "n", "i", "o", "r", ",", " ", "S", "e", "n", "i", "o", "r">>

\* C9 as stated: a title that matches no level gets the explicit value
\* "unspecified".
C9_UnspecifiedLabel == called => returned = ClaimedLabel(argument, <<"u", "n", "s", "p", "e",
        "c", "i", "f", "i", "e", "d">>)

\* ---------------------------------------- one call of extract_location
BadgeTexts == { <<"u0410", "u043b", "u043c", "u0430", "u0442", "u044b">>, <<"u0410", "u0441",
        "u0442", "u0430", "u043d", "u0430">>, <<"u0423", "u0434", "u0430", "u043b", "u0435",
                "u043d", "u043d", "u043e">>, <<" ", "u0423", "u0434", "u0430", "u043b",
                        "u0435", "u043d", "u043d", "u043e", "\n">>, <<"u0413", "u0438",
                                "u0431", "u0440", "u0438", "u0434">> }

BadgeLists == Lists(BadgeTexts, MaxBadges)

LocationInit == argument \in BadgeLists /\ called = FALSE /\ returned = None

CallExtractLocation ==
    /\ ~called
    /\ called' = TRUE
    /\ returned' = extract_location(argument)
    /\ UNCHANGED argument
    /\ UNCHANGED not_call_vars


IsFlagToken(fragment) == fragment \in {RemoteToken, HybridToken}

IsPlace(fragment) == ~IsFlagToken(fragment)

\* C10: remote (hybrid) is set exactly when some trimmed fragment is the
\* Remote (Hybrid) token, those fragments are removed, and the location is
\* the fragment that remains, absent when none does, so it is never one of
\* the two tokens.
C10_LocationClaim ==
    called =>
      LET fragments == [i \in 1..Len(argument) |-> Strip(argument[i])]
          remaining == SelectSeq(fragments, IsPlace)
      IN /\ returned.remote = InList(RemoteToken, fragments)
         /\ returned.hybrid = InList(HybridToken, fragments)
         /\ returned.city = (IF Len(remaining) = 0 THEN None ELSE remaining[1])
         /\ ~IsFlagToken(returned.city)

\* ------------------------------------------ one call of extract_salary
\* "ot " (from), "do " (up to) and the tenge sign are Cyrillic / U+20B8
SalaryPieces == { <<"1">>, <<" ", "-", " ", "2">>, <<" ", "-", " ">>, <<"-", "3">>, <<"u043e",
        "u0442", " ">>,
                  <<"u0434", "u043e", " ">>, <<" ", "u20b8">>, <<"4", " ", "0">> }

SalaryTexts == Concatenations(SalaryPieces, MaxPieces)

SalaryInit == argument \in SalaryTexts /\ called = FALSE /\ returned = None

CallExtractSalary ==
    /\ ~called
    /\ called' = TRUE
    /\ returned' = extract_salary(argument)
    /\ UNCHANGED argument
    /\ UNCHANGED not_call_vars


Malformed == Raised("MalformedSalaryText")

\* the digits of a text as an integer, absent for a text without digits
ClaimedDigits(text) ==
    IF Len(DigitsOf(text)) = 0 THEN NoInt ELSE Some(DecimalValue(DigitsOf(text)))

\* the reference salary parser
ClaimedSalary(text) ==
    LET parts == Split(text, <<" ", "-", " ">>)
        whole == ClaimedDigits(text)
    IN IF Contains(text, <<"u043e", "u0442">>)
       THEN IF whole.some THEN Salary(whole, NoInt) ELSE Malformed
       ELSE IF Contains(text, <<"u0434", "u043e">>)
       THEN IF whole.some THEN Salary(NoInt, whole) ELSE Malformed
       ELSE IF Len(parts) = 1
       THEN IF whole.some THEN Salary(whole, whole) ELSE Malformed
       ELSE IF Len(parts) = 2
       THEN IF ClaimedDigits(parts[1]).some /\ ClaimedDigits(parts[2]).some
            THEN Salary(ClaimedDigits(parts[1]), ClaimedDigits(parts[2]))
            ELSE Malformed
       ELSE Malformed

\* C8: extract_salary gives what the reference parser gives: the bounds of
\* the "from", "up to", one-part and two-part shapes, and a failure for any
\* other split shape and for a part without digits.
C8_SalaryClaim ==
    called =>
      IF ClaimedSalary(argument) = Malformed
      THEN returned.raised # "no"
      ELSE returned = ClaimedSalary(argument)
\* ------------------------------------------------- the parse loop of main
\* what BeautifulSoup finds in a vacancy page: the header section
\* (div.j-d-h__inner), its h3 and location badges, the two employer
\* elements, the content section (div.j-d__content) and its price span;
\* None stands for an element that is not there
Page(header, h3, badges, company, card_company, content, price) ==
    [header |-> header, h3 |-> h3, badges |-> badges, company |-> company,
     card_company |-> card_company, content |-> content, price |-> price]

NoPage == Page(FALSE, None, <<>>, None, None, FALSE, None)

Pages ==
    { Page(TRUE, <<"S", "e", "n", "i", "o", "r", " ", "D", "e", "v">>, <<<<"u0410", "u043b",
            "u043c", "u0430", "u0442", "u044b">>, <<"u0423", "u0434", "u0430", "u043b",
                    "u0435", "u043d", "u043d", "u043e">>>>, <<" ", "A", "c", "m", "e", " ">>, None,
           TRUE, <<"u043e", "u0442", " ", "1", " ", "u20b8">>),
      Page(TRUE, <<"D", "a", "t", "a">>, <<>>, None, <<"K", "a", "s", "p", "i">>, TRUE, <<"1",
              " ", "-", " ", "2">>),
      Page(TRUE, <<"j", "u", "n", "i", "o", "r">>, <<<<"u0413", "u0438", "u0431", "u0440",
              "u0438", "u0434">>>>, None, None, TRUE, <<"u0434", "u043e", " ", "2">>),
      Page(FALSE, None, <<>>, None, None, TRUE, <<"1">>),
      Page(TRUE, None, <<>>, <<"A", "c", "m", "e">>, None, TRUE, <<"1">>),
      Page(TRUE, <<"D", "a", "t", "a">>, <<>>, <<"A", "c", "m", "e">>, None, FALSE, None),
      Page(TRUE, <<"D", "a", "t", "a">>, <<>>, <<"A", "c", "m", "e">>, None, TRUE, None),
      Page(TRUE, <<"D", "a", "t", "a">>, <<>>, <<"A", "c", "m", "e">>, None, TRUE, <<" ", "-",
              " ">>) }

\* what one make_request call meets: an exception of requests, or a page
Response(exc, page) == [exc |-> exc, page |-> page]

TransportErrors ==
    {"ConnectTimeout", "ConnectionError", "ReadTimeout", "HTTPError",
     "TooManyRedirects"}

Responses ==
    {Response(e, NoPage) : e \in TransportErrors}
        \cup {Response("no", p) : p \in Pages}

\* Vacancy.__init__
Vacancy(url, vacancy_id) ==
    [vacancy_id |-> vacancy_id, name |-> <<>>, level |-> <<>>,
     employer |-> <<>>, location |-> <<>>, salary_bottom_line |-> Some(0),
     salary_top_line |-> NoInt, remote |-> FALSE, hybrid |-> FALSE,
     url |-> url]

\* list(Vacancy.get_info().values())[1:]
Row(v) ==
    <<v.name, v.level, v.employer, v.location, v.salary_bottom_line,
      v.salary_top_line, v.remote, v.hybrid, v.url>>

\* list(Vacancy('', 0).get_info().keys())[1:]
Headings ==
    <<<<"u0412", "u0430", "u043a", "u0430", "u043d", "u0441", "u0438", "u044f">>, <<"u0423",
            "u0440", "u043e", "u0432", "u0435", "u043d", "u044c">>, <<"u0420", "u0430",
                    "u0431", "u043e", "u0442", "u043e", "u0434", "u0430", "u0442", "u0435",
                            "u043b", "u044c">>, <<"u0413", "u043e", "u0440", "u043e", "u0434">>,
      <<"u041c", "u0438", "u043d", "u0438", "u043c", "u0430", "u043b", "u044c", "u043d",
              "u0430", "u044f", " ", "u0437", "u0430", "u0440", "u043f", "u043b", "u0430",
                      "u0442", "u0430">>, <<"u041c", "u0430", "u043a", "u0441", "u0438",
                              "u043c", "u0430", "u043b", "u044c", "u043d", "u0430", "u044f",
                                      " ", "u0437", "u0430", "u0440", "u043f", "u043b",
                                              "u0430", "u0442", "u0430">>, <<"u0423", "u0434",
                                                      "u0430", "u043b", "u0435", "u043d",
                                                              "u043d", "u043e">>,
      <<"u0413", "u0438", "u0431", "u0440", "u0438", "u0434", "u043d", "u043e">>, <<"u0421",
              "u0441", "u044b", "u043b", "u043a", "u0430">>>>

Outcome(raised, vacancy) == [raised |-> raised, vacancy |-> vacancy]

\* HTMLParser._fill_vacancy_info: the exception it raises ("no": none) and
\* the vacancy it filled
_fill_vacancy_info(vacancy, page) ==
    IF ~page.header \/ page.h3 = None THEN Outcome("AttributeError", vacancy)
    ELSE IF ~page.content \/ page.price = None
    THEN Outcome("AttributeError", vacancy)
    ELSE LET location == extract_location(page.badges)
             employer == IF page.company # None THEN Strip(page.company)
                         ELSE IF page.card_company # None
                         THEN Strip(page.card_company)
                         ELSE <<>>
             salary == extract_salary(page.price)
         IN IF salary.raised # "no" THEN Outcome(salary.raised, vacancy)
            ELSE Outcome("no",
                   [vacancy EXCEPT !.name = page.h3,
                                   !.level = identify_level(page.h3),
                                   !.location = location.city,
                                   !.remote = location.remote,
                                   !.hybrid = location.hybrid,
                                   !.employer = employer,
                                   !.salary_bottom_line = salary.bottom,
                                   !.salary_top_line = salary.top])

\* HTMLParser(url, idx, config).parse()
parse(url, vacancy_id, response) ==
    IF response.exc # "no" THEN Outcome(response.exc, Vacancy(url, vacancy_id))
    ELSE _fill_vacancy_info(Vacancy(url, vacancy_id), response.page)

handles_everything(exc) == TRUE

handles_all_but_http_error(exc) ==
    exc \in {"ConnectTimeout", "ConnectionError", "ReadTimeout"}

\* the except clause of main's loop
handles(exc) ==
    exc \in {"ConnectTimeout", "ConnectionError", "ReadTimeout", "HTTPError"}

\* the URL lists scroll_site can leave behind
UrlLists ==
    LET found == {_extract_url(href) : href \in Hrefs} \ {<<>>}
    IN {l \in Lists(found, MaxCap) : NoDuplicates(l)}

\* main() up to the for loop: the crawl is over, the workbook holds the
\* headings
MainInit ==
    /\ urls \in UrlLists
    /\ pc = "closed"
    /\ num_articles = MaxCap
    /\ last_height = 0
    /\ new_height = 0
    /\ heights = <<0, 0>>
    /\ scrolls = 1
    /\ quits = 1
    /\ page_links = [qualifying |-> Len(urls), repeated |-> FALSE]
    /\ main_pc = "loop"
    /\ idx = 1
    /\ requested = <<>>
    /\ responses = <<>>
    /\ ws = <<Headings>>
    /\ error = "no"

\* one iteration of the for loop: parse(), the except clause, ws.append
ParseVacancy ==
    /\ main_pc = "loop"
    /\ idx <= Len(urls)
    /\ \E response \in Responses :
         LET parsed == parse(urls[idx], idx, response)
         IN /\ requested' = Append(requested, urls[idx])
            /\ responses' = Append(responses, response)
            /\ IF parsed.raised = "no"
               THEN /\ ws' = Append(ws, Row(parsed.vacancy))
                    /\ idx' = idx + 1
                    /\ UNCHANGED <<main_pc, error>>
               ELSE IF handles(parsed.raised)
               THEN /\ idx' = idx + 1
                    /\ UNCHANGED <<main_pc, ws, error>>
               ELSE /\ main_pc' = "crashed"
                    /\ error' = parsed.raised
                    /\ UNCHANGED <<idx, ws>>
    /\ UNCHANGED not_main_vars

\* the loop is over: style_excel, the last save, visualize
Finish ==
    /\ main_pc = "loop"
    /\ idx > Len(urls)
    /\ main_pc' = "parsed"
    /\ UNCHANGED <<idx, requested, responses, ws, error>>
    /\ UNCHANGED not_main_vars

MainNext == ParseVacancy \/ Finish

FetchFailures == {"ConnectTimeout", "ConnectionError", "ReadTimeout", "HTTPError"}

\* the request met a page and every field could be extracted from it
Succeeded(response) ==
    /\ response.exc = "no"
    /\ _fill_vacancy_info(Vacancy(<<>>, 0), response.page).raised = "no"

\* the URLs, in order of discovery, whose request succeeded
RECURSIVE SucceededUrls(_)
SucceededUrls(n) ==
    IF n = 0 THEN <<>>
    ELSE IF Succeeded(responses[n])
    THEN Append(SucceededUrls(n - 1), urls[n])
    ELSE SucceededUrls(n - 1)

\* the Ssylka (link) column of the rows below the headings
RowUrls == [i \in 1..(Len(ws) - 1) |-> ws[i + 1][9]]

\* C4: URLs are requested once each in discovery order; a fetch failure
\* never ends the run; the rows appended are exactly those of the URLs whose
\* fetch and extraction succeeded, in discovery order; a run that is not
\* aborted requests every URL.
C4_ParseLoop ==
    /\ IsPrefix(requested, urls)
    /\ Len(responses) = Len(requested)
    /\ RowUrls = SucceededUrls(Len(responses))
    /\ main_pc = "loop" => idx = Len(requested) + 1
    /\ main_pc = "parsed" => requested = urls
    /\ main_pc = "crashed" => responses[Len(responses)].exc \notin FetchFailures

\* two URLs, the first met an HTTP error, the second was parsed and appended
C4_Witness ==
    /\ main_pc = "parsed"
    /\ Len(urls) = 2
    /\ responses[1].exc = "HTTPError"
    /\ responses[2].exc = "no"
    /\ RowUrls = <<urls[2]>>

\* the page has no header section, or no heading in it
MissingRequiredSection(response) ==
    response.exc = "no" /\ (~response.page.header \/ response.page.h3 = None)

\* C7: a page without the header section or without its heading ends the
\* run with the extractor's failure: it is the last page requested, no row
\* holds its URL, and no later URL is requested.
C7_MissingSectionIsFatal ==
    \A i \in 1..Len(responses) :
        MissingRequiredSection(responses[i])
            => /\ main_pc = "crashed"
               /\ error = "AttributeError"
               /\ Len(requested) = i
               /\ ~InList(urls[i], RowUrls)

\* the first of two URLs has no header section: the second is never requested
C7_Witness ==
    /\ main_pc = "crashed"
    /\ Len(urls) = 2
    /\ Len(responses) = 1
    /\ ~responses[1].page.header
    /\ responses[1].exc = "no"

\* ----------------------------------------------------------- specifications
CrawlIdle ==
    /\ pc = "idle"
    /\ num_articles = 1
    /\ urls = <<>>
    /\ last_height = None
    /\ new_height = None
    /\ page_links = None
    /\ scrolls = 0
    /\ heights = <<>>
    /\ quits = 0

ConfigIdle ==
    /\ config_file = None
    /\ config_pc = "idle"
    /\ validated = None
    /\ config_error = "no"
    /\ config = None

CallIdle == argument = None /\ called = FALSE /\ returned = None

MainIdle ==
    /\ main_pc = "idle"
    /\ idx = 1
    /\ requested = <<>>
    /\ responses = <<>>
    /\ ws = <<>>
    /\ error = "no"

\* main() from the end of crawler.scroll_site() on
MainSpecInit == MainInit /\ ConfigIdle /\ CallIdle

SpecMain == MainSpecInit /\ [][MainNext]_vars

\* Config(path_to_config)
ConfigSpecInit == ConfigInit /\ CrawlIdle /\ MainIdle /\ CallIdle

SpecConfig == ConfigSpecInit /\ [][ConfigNext]_vars

\* Crawler(config).scroll_site()
CrawlSpecInit == CrawlInit /\ ConfigIdle /\ MainIdle /\ CallIdle

SpecCrawl == CrawlSpecInit /\ [][CrawlNext]_vars

\* HTMLParser.identify_level(title)
LevelSpecInit == LevelInit /\ CrawlIdle /\ ConfigIdle /\ MainIdle

SpecLevel == LevelSpecInit /\ [][CallIdentifyLevel]_vars

\* HTMLParser.extract_location(badges)
LocationSpecInit == LocationInit /\ CrawlIdle /\ ConfigIdle /\ MainIdle

SpecLocation == LocationSpecInit /\ [][CallExtractLocation]_vars

\* HTMLParser.extract_salary(text)
SalarySpecInit == SalaryInit /\ CrawlIdle /\ ConfigIdle /\ MainIdle

SpecSalary == SalarySpecInit /\ [][CallExtractSalary]_vars
====
